---- MODULE Spec2Model ----
(***************************************************************************)
(* Lodifice/textile: the category table (src/src/interval_map.rs) and the  *)
(* TeX tokenizer (src/src/token.rs).                                       *)
(*                                                                         *)
(* Strings are sequences of Unicode code points (naturals).  Rust indexes  *)
(* a String by UTF-8 byte offsets, so the cursor `pos` is a byte offset    *)
(* and a slice that does not start on a character boundary panics.         *)
(***************************************************************************)
EXTENDS Integers, Sequences, FiniteSets, TLC

(***************************************************************************)
(* Bounds of the model.                                                    *)
(***************************************************************************)
\* Stand-in for Idx::max_value() of the table exercised on its own
\* (u8::MAX in the repository's tests): the domain is 0..MapMax.
MapMax == 4
\* Number of assign calls made on that table.
MaxAssigns == 3
\* Number of lines the line source yields.
MaxLines == 2
\* Number of pieces (a character or a doubled character) of the first line.
MaxPieces == 3
\* Number of pieces of each later line.
MaxFollowPieces == 1
\* Number of catcode / set_endlinechar calls the host makes.
MaxCalls == 1
\* set_endlinechar calls made on a tokenizer whose calls are all of that kind
MaxEndlineCalls == 2
\* pieces of each line of the short line source
MaxLivePieces == 1
MaxCodePoint == 300

(***************************************************************************)
(* IntIntervalMap<Idx, V>: a list of (upper bound, value) pairs.           *)
(***************************************************************************)
\* Idx::min_value() of the unsigned index types the repository uses
IdxMin == 0

\* a table whose last upper bound is one short of the maximum
new_short(max_value, value) == << <<max_value - 1, value>> >>

\* IntIntervalMap::new
new(max_value, value) == << <<max_value, value>> >>

\* one iteration of the loop of assign: what the interval (lower, upper]
\* with `value` contributes to `result`
assign_arm(lower, upper, value, start, end, new_value) ==
    LET start_in == start >= lower
        end_in   == end < upper
    IN  IF start_in /\ end_in
          THEN << <<start, value>>, <<end, new_value>>, <<upper, value>> >>
        ELSE IF start_in /\ ~end_in
          THEN IF start < upper
                 THEN << <<start, value>>, <<upper, new_value>> >>
                 ELSE << <<upper, value>> >>
        ELSE IF ~start_in /\ end_in
          THEN IF end < lower
                 THEN << <<upper, value>> >>
                 ELSE << <<end, new_value>>, <<upper, value>> >>
        ELSE << <<end, new_value>> >>

\* IntIntervalMap::defrag of the entries lo..hi: each run of equal values
\* becomes one entry with the upper bound of the last entry of the run.  The
\* loop is a left fold; the range is halved here to keep TLC's evaluation
\* shallow: the two halves are joined as the fold joins an entry to `result`.
RECURSIVE defrag_range(_, _, _)
defrag_range(intervals, lo, hi) ==
    IF lo > hi THEN << >>
    ELSE IF lo = hi THEN <<intervals[lo]>>
    ELSE LET mid == (lo + hi) \div 2
             l == defrag_range(intervals, lo, mid)
             r == defrag_range(intervals, mid + 1, hi)
         IN  IF l[Len(l)][2] = r[1][2] THEN SubSeq(l, 1, Len(l) - 1) \o r ELSE l \o r

\* no compaction
defrag_none(intervals) == intervals

defrag(intervals) == defrag_range(intervals, 1, Len(intervals))

\* the loop of assign over the entries lo..hi: the arms are pushed to `result`
\* in order.  lower_thresholds[i] is Idx::min_value() for the first interval
\* and the upper bound of the previous interval for the others.  (The range is
\* halved to keep TLC's evaluation shallow.)
RECURSIVE assign_range(_, _, _, _, _, _)
assign_range(intervals, lo, hi, start, end, new_value) ==
    IF lo > hi THEN << >>
    ELSE IF lo = hi
      THEN assign_arm(IF lo = 1 THEN IdxMin ELSE intervals[lo - 1][1],
                      intervals[lo][1], intervals[lo][2], start, end, new_value)
    ELSE LET mid == (lo + hi) \div 2
         IN  assign_range(intervals, lo, mid, start, end, new_value)
               \o assign_range(intervals, mid + 1, hi, start, end, new_value)

assign(intervals, start, end, new_value) ==
    defrag(assign_range(intervals, 1, Len(intervals), start, end, new_value))

\* IntIntervalMap::assign_single
assign_single(intervals, single, value) ==
    assign(intervals, single, single + 1, value)

\* IntIntervalMap::get: the first entry with last <= index < upper (last is
\* the upper bound of the entry before, Idx::min_value() for the first), else
\* the value of the last entry
get(intervals, index) ==
    LET lower(i) == IF i = 1 THEN IdxMin ELSE intervals[i - 1][1]
        hits  == {i \in 1 .. Len(intervals) : index >= lower(i) /\ index < intervals[i][1]}
    IN  IF hits = {} THEN intervals[Len(intervals)][2]
        ELSE intervals[CHOOSE i \in hits : \A j \in hits : i <= j][2]

(***************************************************************************)
(* Category, Token, Span, TokenizerState.                                  *)
(***************************************************************************)
Cat0 == "Cat0"
Cat1 == "Cat1"
Cat2 == "Cat2"
Cat3 == "Cat3"
Cat4 == "Cat4"
Cat5 == "Cat5"
Cat6 == "Cat6"
Cat7 == "Cat7"
Cat8 == "Cat8"
Cat9 == "Cat9"
Cat10 == "Cat10"
Cat11 == "Cat11"
Cat12 == "Cat12"
Cat13 == "Cat13"
Cat14 == "Cat14"
Cat15 == "Cat15"

LineStart == "LineStart"
LineMiddle == "LineMiddle"
SkippingBlanks == "SkippingBlanks"

\* Span::new
Span(line, start, end) == [line |-> line, start |-> start, end |-> end]

\* Token::ControlSequence(String, Span)
ControlSequence(name, span) == [type |-> "ControlSequence", name |-> name, span |-> span]
\* Token::Character(char, Category)
Character(chr, category) == [type |-> "Character", chr |-> chr, cat |-> category]
\* Token::Other(OtherToken, Span); kind is the OtherToken variant and val its
\* payload (a string for Comment and Skipped, a char for the two others)
Other(kind, val, span) == [type |-> "Other", kind |-> kind, val |-> val, span |-> span]

(***************************************************************************)
(* The standard library functions the tokenizer calls.                     *)
(***************************************************************************)
\* char::len_utf8: the number of bytes of a code point in a String
len_utf8(c) == IF c < 128 THEN 1 ELSE IF c < 2048 THEN 2 ELSE IF c < 65536 THEN 3 ELSE 4

\* the byte offset at which the k-th character of s starts (k = Len(s) + 1:
\* the byte length of s)
RECURSIVE byte_offset(_, _)
byte_offset(s, k) == IF k <= 1 THEN 0 ELSE byte_offset(s, k - 1) + len_utf8(s[k - 1])

\* &s[from..]: panics unless `from` is a character boundary of s
str_from(s, from) ==
    LET ks == {k \in 1 .. Len(s) + 1 : byte_offset(s, k) = from}
    IN  IF ks = {} THEN [ok |-> FALSE]
        ELSE [ok |-> TRUE, chars |-> SubSeq(s, CHOOSE k \in ks : TRUE, Len(s))]

\* &s[from..to]: panics unless both ends are character boundaries of s
str_slice(s, from, to) ==
    LET ks == {k \in 1 .. Len(s) + 1 : byte_offset(s, k) = from}
        js == {j \in 1 .. Len(s) + 1 : byte_offset(s, j) = to}
    IN  IF ks = {} \/ js = {} THEN [ok |-> FALSE]
        ELSE [ok |-> TRUE,
              chars |-> SubSeq(s, CHOOSE k \in ks : TRUE, (CHOOSE j \in js : TRUE) - 1)]

\* char::is_ascii_hexdigit() && char::is_lowercase(): a-f
is_lower_hexdigit(c) == 97 <= c /\ c <= 102

\* char::is_numeric (Unicode Nd, Nl, No) for the code points below 256:
\* 0-9, superscript two, three and one, and the three vulgar fractions
is_numeric(c) == (48 <= c /\ c <= 57) \/ c \in {178, 179, 185, 188, 189, 190}

\* char::to_digit(16) as u32::from_str_radix uses it; -1 when c is no digit
hex_value(c) ==
    IF 48 <= c /\ c <= 57 THEN c - 48
    ELSE IF 97 <= c /\ c <= 102 THEN c - 87
    ELSE IF 65 <= c /\ c <= 70 THEN c - 55
    ELSE 0 - 1

\* u32::from_str_radix(s, 16) for the strings the tokenizer passes (two bytes,
\* never starting with a sign): Err on an empty string or a non-digit
RECURSIVE from_str_radix16(_, _, _)
from_str_radix16(s, i, acc) ==
    IF Len(s) = 0 THEN [ok |-> FALSE]
    ELSE IF i > Len(s) THEN [ok |-> TRUE, val |-> acc]
    ELSE IF hex_value(s[i]) < 0 THEN [ok |-> FALSE]
    ELSE from_str_radix16(s, i + 1, acc * 16 + hex_value(s[i]))

\* std::char::from_u32: None for surrogates and beyond U+10FFFF
from_u32(v) ==
    IF (55296 <= v /\ v <= 57343) \/ v > 1114111 THEN [ok |-> FALSE]
    ELSE [ok |-> TRUE, val |-> v]

\* a trim that removes one trailing space only
trim_end_one(s) ==
    IF Len(s) > 0 /\ s[Len(s)] = 32 THEN SubSeq(s, 1, Len(s) - 1) ELSE s

\* String::trim_end_matches(' ') followed by truncate
RECURSIVE trim_end_spaces(_)
trim_end_spaces(s) ==
    IF Len(s) > 0 /\ s[Len(s)] = 32 THEN trim_end_spaces(SubSeq(s, 1, Len(s) - 1)) ELSE s

(***************************************************************************)
(* Tokenizer.  A tokenizer value t is a record of the fields of the struct *)
(* (category_map, state, line, line_count, pos, endlinechar, token_buffer, *)
(* and lines, the line source, by the kind of lines it may yield)          *)
(* and of history fields: pops (the pop_char calls of the current pull),    *)
(* loads (its next_line calls), steps (its scan steps), produced (the      *)
(* tokens it pushed, in the order of the push calls), after_word (a        *)
(* control word, and then only Space-category characters, came just before *)
(* the cursor on this line) and loaded (the buffered line as the line      *)
(* source gave it, the endlinechar of that time, and the scan steps made   *)
(* on this line so far, over all pulls).                                   *)
(***************************************************************************)
\* u32::MAX is 4294967295, beyond TLC's integers; every index the tokenizer
\* looks up or assigns is a char code (at most 1114111, plus one), so every
\* comparison with the last upper bound comes out the same.
U32Max == 2147483647

\* Tokenizer::new, lines 310-336: the category_map after each assign! in turn
\* (the range form of assign! is assign(lo .. hi + 1), the single form
\* assign_single)
map00 == new(U32Max, Cat12)
map01 == assign_single(map00, 92, Cat0)
map02 == assign_single(map01, 123, Cat1)
map03 == assign_single(map02, 125, Cat2)
map04 == assign_single(map03, 36, Cat3)
map05 == assign_single(map04, 38, Cat4)
map06 == assign_single(map05, 10, Cat5)
map07 == assign_single(map06, 13, Cat5)
map08 == assign_single(map07, 35, Cat6)
map09 == assign_single(map08, 94, Cat7)
map10 == assign_single(map09, 95, Cat8)
map11 == assign_single(map10, 0, Cat9)
map12 == assign_single(map11, 32, Cat10)
map13 == assign_single(map12, 9, Cat10)
map14 == assign(map13, 97, 123, Cat11)
map15 == assign(map14, 65, 91, Cat11)
map16 == assign(map15, 48, 58, Cat12)
map17 == assign(map16, 48, 58, Cat12)
map18 == assign(map17, 58, 65, Cat12)
map19 == assign_single(map18, 126, Cat13)
map20 == assign_single(map19, 37, Cat14)
map21 == assign(map20, 1, 9, Cat15)
map22 == assign_single(map21, 11, Cat15)
map23 == assign_single(map22, 12, Cat15)
\* the last range without the + 1 of the range form of assign!
map24_short == assign(map23, 14, 31, Cat15)
map24 == assign(map23, 14, 32, Cat15)

\* the category_map of a new Tokenizer
DefaultMap == map24

\* Tokenizer::new
Tokenizer_new ==
    [category_map |-> DefaultMap, state |-> LineStart, line |-> << >>,
     endlinechar |-> 13, pos |-> 0, token_buffer |-> << >>, line_count |-> 0,
     pops |-> << >>, loads |-> << >>, steps |-> << >>, produced |-> << >>,
     after_word |-> FALSE, loaded |-> [raw |-> << >>, endlinechar |-> 13, scanned |-> << >>],
     lines |-> "long"]

\* a span that does not carry the line number
here_unnumbered(t) == Span(0, t.pos, t.pos)

\* Tokenizer::here
here(t) == Span(t.line_count, t.pos, t.pos)

\* Tokenizer::input
input(t) == str_from(t.line, t.pos)

\* a push at the end the pops take from: Vec::push(token)
push_back(t, token) ==
    [t EXCEPT !.token_buffer = @ \o <<token>>, !.produced = Append(@, token)]

\* Tokenizer::push: Vec::insert(0, token)
push(t, token) ==
    [t EXCEPT !.token_buffer = <<token>> \o @, !.produced = Append(@, token)]

\* a lookup in the table Tokenizer::new built, whatever catcode changed since
cat_of_new(t, c) == get(DefaultMap, c)

\* Tokenizer::cat
cat(t, c) == get(t.category_map, c)

\* F(v), with the value v computed once
Once(v, F(_)) == CHOOSE r \in {F(x) : x \in {v}} : TRUE

\* Tokenizer::parse_superscript_char: "panic", "none" or "some" (c, l)
parse_superscript_char(t) ==
    LET hex(n) ==
          IF ~n.ok THEN [kind |-> "panic"]
          ELSE IF ~from_u32(n.val).ok THEN [kind |-> "panic"]
          ELSE [kind |-> "some", c |-> from_u32(n.val).val, l |-> 4]
        sliced(sl) ==
          IF ~sl.ok THEN [kind |-> "panic"] ELSE Once(from_str_radix16(sl.chars, 1, 0), hex)
        parse(inp) ==
          IF ~inp.ok THEN [kind |-> "panic"]
          ELSE LET chars == inp.chars IN
            IF Len(chars) = 0 \/ cat(t, chars[1]) # Cat7 THEN [kind |-> "none"]
            ELSE IF Len(chars) >= 2 /\ chars[2] = chars[1] THEN
              LET are_hexdigits ==
                      /\ Len(chars) >= 4
                      /\ \A k \in {3, 4} : is_lower_hexdigit(chars[k]) \/ is_numeric(chars[k])
              IN  IF are_hexdigits THEN Once(str_slice(chars, 2, 4), sliced)
                  ELSE IF Len(chars) >= 3 THEN
                    LET c == chars[3] IN
                    IF c >= 128 THEN [kind |-> "none"]
                    ELSE IF c < 64 THEN [kind |-> "some", c |-> c + 64, l |-> 3]
                    ELSE [kind |-> "some", c |-> c - 64, l |-> 3]
                  ELSE [kind |-> "none"]
            ELSE [kind |-> "none"]
    IN  Once(input(t), parse)

\* history: one pop_char call, from cursor pos0 to cursor t.pos
popped(t, pos0, kind, c) ==
    [pos0 |-> pos0, kind |-> kind, c |-> c, pos1 |-> t.pos]

\* Tokenizer::pop_char: "panic", "none" or "some" c, with the tokenizer after it
pop_char(t) ==
    LET moved(t1, c) ==
          [kind |-> "some", c |-> c,
           t |-> [t1 EXCEPT !.pops = Append(@, popped(t1, t.pos, "some", c))]]
        plain(inp) ==
          IF Len(inp.chars) > 0
            THEN moved([t EXCEPT !.pos = @ + 1], inp.chars[1])
            ELSE [kind |-> "none",
                  t |-> [t EXCEPT !.pops = Append(@, popped(t, t.pos, "none", 0))]]
        parsed(p) ==
          IF p.kind = "panic"
            THEN [kind |-> "panic",
                  t |-> [t EXCEPT !.pops = Append(@, popped(t, t.pos, "panic", 0))]]
          ELSE IF p.kind = "some" THEN moved([t EXCEPT !.pos = @ + p.l], p.c)
          ELSE Once(input(t), plain)
    IN  Once(parse_superscript_char(t), parsed)

\* Tokenizer::look_ahead
look_ahead(t) ==
    LET plain(inp) ==
          IF Len(inp.chars) > 0 THEN [kind |-> "some", c |-> inp.chars[1]]
          ELSE [kind |-> "none"]
        parsed(p) ==
          IF p.kind = "panic" THEN [kind |-> "panic"]
          ELSE IF p.kind = "some" THEN [kind |-> "some", c |-> p.c]
          ELSE Once(input(t), plain)
    IN  Once(parse_superscript_char(t), parsed)

\* a next_line that rewinds the buffered line when the source is exhausted
next_line_rewind(t) == [t EXCEPT !.state = LineStart, !.pos = 0]

\* Tokenizer::next_line when the line source is exhausted: returns false
next_line_none(t) == [t EXCEPT !.state = LineStart]

\* a next_line that ends every line with a character: endlinechar, or a
\* carriage return when endlinechar is above 255
next_line_appending(t, l) ==
    LET log(t1) ==
          [t1 EXCEPT !.loaded = [raw |-> l, endlinechar |-> t.endlinechar,
                                 scanned |-> << >>],
                     !.loads = Append(@, [raw |-> l, before |-> t.state,
                                          endlinechar |-> t.endlinechar,
                                          line |-> t1.line, pos |-> t1.pos,
                                          state |-> t1.state,
                                          line_count |-> t1.line_count])]
        truncated(trimmed) ==
          log([t EXCEPT !.state = LineStart,
                        !.line = Append(trimmed, IF t.endlinechar <= 255 THEN t.endlinechar
                                                 ELSE 13),
                        !.pos = 0,
                        !.line_count = @ + 1])
    IN  truncated(trim_end_spaces(l))

\* Tokenizer::next_line when the line source yields the line l: returns true
next_line(t, l) ==
    LET log(t1) ==
          [t1 EXCEPT !.loaded = [raw |-> l, endlinechar |-> t.endlinechar,
                                 scanned |-> << >>],
                     !.loads = Append(@, [raw |-> l, before |-> t.state,
                                          endlinechar |-> t.endlinechar,
                                          line |-> t1.line, pos |-> t1.pos,
                                          state |-> t1.state,
                                          line_count |-> t1.line_count])]
        truncated(trimmed) ==
          log([t EXCEPT !.state = LineStart,
                        !.line = IF t.endlinechar <= 255 THEN Append(trimmed, t.endlinechar)
                                 ELSE trimmed,
                        !.pos = 0,
                        !.line_count = @ + 1])
    IN  truncated(trim_end_spaces(l))

\* The characters input lines are made of: backslash, a, space, ^, carriage
\* return and superscript two (U+00B2, two bytes in UTF-8, numeric).
Alphabet == {92, 97, 32, 94, 13, 178}

\* A line is a sequence of pieces: one character, one of the characters
\* that can be a Superscript-category character, doubled, or a space with a
\* letter behind it (a space that is not trimmed from the end of the line).
Pieces == {<<c>> : c \in Alphabet} \cup {<<c, c>> : c \in {94, 178}} \cup {<<32, 97>>}

\* the concatenation of the pieces ps[i], ..., ps[k]
RECURSIVE Flatten(_, _, _)
Flatten(ps, i, k) == IF i > k THEN << >> ELSE ps[i] \o Flatten(ps, i + 1, k)

LinesOf(n) == UNION {{Flatten(ps, 1, k) : ps \in [1 .. k -> Pieces]} : k \in 0 .. n}

\* The lines the line source may yield: the first one, and the later ones.
FirstLines == LinesOf(MaxPieces)
FollowLines == LinesOf(MaxFollowPieces)
ShortLines == LinesOf(MaxLivePieces)

\* what lines.next() may yield after n lines: the source `lines` is one of
\* long lines ("long") or one of short lines ("short")
InputLines(lines, n) ==
    IF lines = "short" THEN ShortLines
    ELSE IF n = 0 THEN FirstLines ELSE FollowLines

\* the loop absorbing the Letter-category characters of a control word
RECURSIVE absorb_letters(_, _)
absorb_letters(t, content) ==
    LET looked(la) ==
          IF la.kind = "panic" THEN [kind |-> "panic", t |-> t]
          ELSE IF la.kind = "some" /\ cat(t, la.c) = Cat11
            THEN Once(pop_char(t).t, LAMBDA t1 : absorb_letters(t1, Append(content, la.c)))
          ELSE [kind |-> "ok", t |-> t, content |-> content]
    IN  Once(look_ahead(t), looked)

\* the loop absorbing a run of Space-category characters
RECURSIVE absorb_spaces(_, _)
absorb_spaces(t, whitespace) ==
    LET looked(la) ==
          IF la.kind = "panic" THEN [kind |-> "panic", t |-> t]
          ELSE IF la.kind = "some" /\ cat(t, la.c) = Cat10
            THEN Once(pop_char(t).t, LAMBDA t1 : absorb_spaces(t1, Append(whitespace, la.c)))
          ELSE [kind |-> "ok", t |-> t, content |-> whitespace]
    IN  Once(look_ahead(t), looked)

\* while let Some(c) = self.pop_char() { text.push(c) }
RECURSIVE pop_rest(_, _)
pop_rest(t, text) ==
    LET got(p) ==
          IF p.kind = "panic" THEN [kind |-> "panic", t |-> p.t]
          ELSE IF p.kind = "some" THEN pop_rest(p.t, Append(text, p.c))
          ELSE [kind |-> "ok", t |-> p.t, content |-> text]
    IN  Once(pop_char(t), got)

\* a Cat0 arm that pushes nothing when no character follows the escape
scan_escape_silent(t, hr) ==
    LET made(t2, name) ==
          [kind |-> "ok", t |-> push(t2, ControlSequence(name, [hr EXCEPT !.end = t2.pos - 1]))]
        word(a) ==
          IF a.kind = "panic" THEN a
          ELSE made([a.t EXCEPT !.state = SkippingBlanks], a.content)
        got(p) ==
          IF p.kind = "panic" THEN [kind |-> "panic", t |-> p.t]
          ELSE IF p.kind = "none" THEN [kind |-> "ok", t |-> p.t]
          ELSE LET category == cat(p.t, p.c) IN
            IF category = Cat11 THEN Once(absorb_letters(p.t, <<p.c>>), word)
            ELSE made([p.t EXCEPT !.state = IF category = Cat10 THEN SkippingBlanks
                                              ELSE LineMiddle], <<p.c>>)
    IN  Once(pop_char(t), got)

\* the Cat0 arm of next: a control sequence
scan_escape(t, hr) ==
    LET made(t2, name) ==
          [kind |-> "ok", t |-> push(t2, ControlSequence(name, [hr EXCEPT !.end = t2.pos - 1]))]
        word(a) ==
          IF a.kind = "panic" THEN a
          ELSE made([a.t EXCEPT !.state = SkippingBlanks], a.content)
        got(p) ==
          IF p.kind = "panic" THEN [kind |-> "panic", t |-> p.t]
          ELSE IF p.kind = "none"
            THEN [kind |-> "ok", t |-> push(p.t, ControlSequence(<< >>, hr))]
          ELSE LET category == cat(p.t, p.c) IN
            IF category = Cat11 THEN Once(absorb_letters(p.t, <<p.c>>), word)
            ELSE made([p.t EXCEPT !.state = IF category = Cat10 THEN SkippingBlanks
                                              ELSE LineMiddle], <<p.c>>)
    IN  Once(pop_char(t), got)

\* a Cat5 arm that queues a space behind "par"
scan_endline_spaced(t, hr) ==
    LET ended(t1) ==
          [kind |-> "ok",
           t |-> IF t1.state = LineStart
                   THEN push(push(t1, ControlSequence(<<112, 97, 114>>, hr)),
                             Character(32, cat(t1, 32)))
                 ELSE IF t1.state = LineMiddle
                   THEN push(t1, Character(32, cat(t1, 32)))
                 ELSE t1]
        rest(r) ==
          IF r.kind = "panic" THEN r
          ELSE IF r.content # << >>
            THEN ended(push(r.t, Other("Skipped", r.content,
                                       [hr EXCEPT !.end = r.t.pos - 1])))
          ELSE ended(r.t)
    IN  Once(pop_rest(t, << >>), rest)

\* the Cat5 arm of next: an end-of-line character
scan_endline(t, hr) ==
    LET ended(t1) ==
          [kind |-> "ok",
           t |-> IF t1.state = LineStart
                   THEN push(t1, ControlSequence(<<112, 97, 114>>, hr))
                 ELSE IF t1.state = LineMiddle
                   THEN push(t1, Character(32, cat(t1, 32)))
                 ELSE t1]
        rest(r) ==
          IF r.kind = "panic" THEN r
          ELSE IF r.content # << >>
            THEN ended(push(r.t, Other("Skipped", r.content,
                                       [hr EXCEPT !.end = r.t.pos - 1])))
          ELSE ended(r.t)
    IN  Once(pop_rest(t, << >>), rest)

\* the Cat10 arm of next: a space
scan_space(t, chr, hr) ==
    LET blanks(a) ==
          IF a.kind = "panic" THEN a
          ELSE [kind |-> "ok",
                t |-> push(a.t, Other("Skipped", a.content,
                                      [hr EXCEPT !.end = a.t.pos - 1]))]
        space(t1) == [kind |-> "ok", t |-> push(t1, Character(32, cat(t1, 32)))]
    IN  IF t.state \in {LineStart, SkippingBlanks}
          THEN Once(absorb_spaces(t, <<chr>>), blanks)
          ELSE space([t EXCEPT !.state = SkippingBlanks])

\* the Cat14 arm of next: a comment
scan_comment(t, hr) ==
    LET rest(r) ==
          IF r.kind = "panic" THEN r
          ELSE [kind |-> "ok",
                t |-> push(r.t, Other("Comment", r.content,
                                      [hr EXCEPT !.end = r.t.pos - 1]))]
    IN  Once(pop_rest(t, << >>), rest)

\* `match cat { ... }` of next for the character chr scanned at span hr
scan(t, chr, hr) ==
    LET category == cat(t, chr) IN
    IF category = Cat0 THEN scan_escape(t, hr)
    ELSE IF category \in {Cat1, Cat2, Cat3, Cat4, Cat6, Cat7, Cat8, Cat11, Cat12, Cat13}
      THEN [kind |-> "ok",
            t |-> push([t EXCEPT !.state = LineMiddle], Character(chr, category))]
    ELSE IF category = Cat5 THEN scan_endline(t, hr)
    ELSE IF category = Cat9
      THEN [kind |-> "ok", t |-> push(t, Other("IgnoredCharacter", chr, hr))]
    ELSE IF category = Cat10 THEN scan_space(t, chr, hr)
    ELSE IF category = Cat14 THEN scan_comment(t, hr)
    ELSE [kind |-> "ok", t |-> push(t, Other("InvalidCharacter", chr, hr))]

\* Vec in delivery order: pop() takes the last element
RECURSIVE Reverse(_)
Reverse(q) == IF q = << >> THEN << >> ELSE Append(Reverse(Tail(q)), Head(q))

\* history: the scan step that took chr (first byte at pos0) from tokenizer t
\* (cursor already behind chr) to tokenizer t2
step_record(t, chr, pos0, kind, t2) ==
    [pos0 |-> pos0, pos1 |-> t.pos,
     chr |-> chr, cat |-> cat(t, chr), st0 |-> t.state, kind |-> kind,
     after_word |-> t.after_word,
     pushed |-> Reverse(t2.token_buffer), st1 |-> t2.state, pos2 |-> t2.pos,
     word |-> (kind = "ok" /\ cat(t, chr) = Cat0 /\ t2.state = SkippingBlanks
               /\ Len(t2.token_buffer) = 1 /\ t2.token_buffer[1].type = "ControlSequence"
               /\ Len(t2.token_buffer[1].name) > 0
               /\ cat(t, t2.token_buffer[1].name[1]) = Cat11)]

\* lines 187-278 of next: here.end = pos - 1, then the match on the category
step(t, chr, hr) ==
    LET logged(s, rec) ==
          [kind |-> s.kind,
           t |-> [s.t EXCEPT !.steps = Append(@, rec),
                             !.after_word = rec.word \/ (t.after_word /\ rec.cat = Cat10),
                             !.loaded.scanned = Append(@, rec)]]
        scanned(s) == logged(s, step_record(t, chr, hr.start, s.kind, s.t))
    IN  Once(scan(t, chr, [hr EXCEPT !.end = t.pos - 1]), scanned)

\* the loop of next that acquires the next character, loading lines as needed.
\* The line source is an iterator the tokenizer does not control: each call
\* of lines.next() may yield any line of InputLines(lines, line_count), or None.  The
\* histories pops and steps are kept for the buffered line only: what came
\* before a load is what the outcome in which the source yields None shows.
RECURSIVE acquire(_, _)
acquire(t, hr) ==
    LET loaded(t1) == acquire(t1, here(t1))
        got(p) ==
          IF p.kind = "panic" THEN {[kind |-> "panic", t |-> p.t]}
          ELSE IF p.kind = "some"
            THEN {[kind |-> "some", chr |-> p.c, t |-> p.t, here |-> hr]}
          ELSE {[kind |-> "none", t |-> next_line_none(p.t)]}
               \cup (IF p.t.line_count < MaxLines
                       THEN UNION {Once([next_line(p.t, l) EXCEPT !.state = LineStart,
                                                                  !.after_word = FALSE,
                                                                  !.pops = << >>,
                                                                  !.steps = << >>], loaded)
                                   : l \in InputLines(p.t.lines, p.t.line_count)}
                       ELSE {})
    IN  Once(pop_char(t), got)

\* Iterator::next of Tokenizer: the set of its possible outcomes, one for each
\* answer of the line source: [kind |-> "some", token, t], "none" or "panic"
RECURSIVE next(_)
next(t) ==
    LET stepped(s) == IF s.kind = "panic" THEN {[kind |-> "panic", t |-> s.t]}
                      ELSE next(s.t)
    IN  IF Len(t.token_buffer) > 0
          THEN {[kind |-> "some", token |-> t.token_buffer[Len(t.token_buffer)],
                 t |-> [t EXCEPT !.token_buffer = SubSeq(@, 1, Len(@) - 1)]]}
          ELSE UNION {IF a.kind = "some" THEN Once(step(a.t, a.chr, a.here), stepped)
                      ELSE {[kind |-> a.kind, t |-> a.t]} : a \in acquire(t, here(t))}

(***************************************************************************)
(* State.                                                                  *)
(***************************************************************************)
VARIABLES
    imap,       \* an IntIntervalMap exercised on its own: its `intervals`
    recent,     \* history: point -> value of the most recent assign covering it
    nassign,    \* history: number of assign calls made on imap
    lastassign, \* history: the last call made on imap and its arguments
    \* the fields of Tokenizer (`lines`, the line source, is the environment)
    category_map, state, line, line_count, pos, endlinechar, token_buffer,
    pops,       \* history: the pop_char calls of the last pull
    loads,      \* history: the next_line calls of the last pull that got a line
    steps,      \* history: the scan steps of the last pull
    produced,   \* history: the tokens the last pull pushed, in push order
    after_word, \* history: a control word and then only spaces came just before
    loaded,     \* history: the buffered line as the source gave it, endlinechar then,
                \* and the scan steps made on this line so far
    lines,      \* the line source: "long" or "short" lines
    result,     \* what the last pull returned: a token, None or a panic
    queued0,    \* history: the lookahead queue, in delivery order, before the last pull
    prevkind,   \* history: what the pull before the last pull returned (result.kind)
    panicked,   \* the thread panicked inside the tokenizer
    ncalls,     \* history: number of catcode / set_endlinechar calls made
    lastcall,   \* history: the last call made on the tokenizer
    defined     \* a call of Macro::define: its arguments, and its result once made

mapvars == <<imap, recent, nassign, lastassign>>
tokvars == <<category_map, state, line, line_count, pos, endlinechar, token_buffer,
             pops, loads, steps, produced, after_word, loaded, lines, result, queued0,
             prevkind, panicked, ncalls, lastcall>>
macvars == <<defined>>
vars == <<mapvars, tokvars, macvars>>

\* the tokenizer value the variables hold
Self ==
    [category_map |-> category_map, state |-> state, line |-> line,
     line_count |-> line_count, pos |-> pos, endlinechar |-> endlinechar,
     token_buffer |-> token_buffer, pops |-> pops, loads |-> loads, steps |-> steps,
     produced |-> produced, after_word |-> after_word, loaded |-> loaded,
     lines |-> lines]

IsSelf(t) ==
    /\ category_map = t.category_map
    /\ state = t.state
    /\ line = t.line
    /\ line_count = t.line_count
    /\ pos = t.pos
    /\ endlinechar = t.endlinechar
    /\ token_buffer = t.token_buffer
    /\ pops = t.pops
    /\ loads = t.loads
    /\ steps = t.steps
    /\ produced = t.produced
    /\ after_word = t.after_word
    /\ loaded = t.loaded
    /\ lines = t.lines

\* the variables take the fields of t
Becomes(t) ==
    /\ category_map' = t.category_map
    /\ state' = t.state
    /\ line' = t.line
    /\ line_count' = t.line_count
    /\ pos' = t.pos
    /\ endlinechar' = t.endlinechar
    /\ token_buffer' = t.token_buffer
    /\ pops' = t.pops
    /\ loads' = t.loads
    /\ steps' = t.steps
    /\ produced' = t.produced
    /\ after_word' = t.after_word
    /\ loaded' = t.loaded
    /\ lines' = t.lines

NoResult == [kind |-> "start"]
NoCall == [op |-> "none"]
NoDefine == [op |-> "none"]

InitTok ==
    /\ IsSelf(Tokenizer_new)
    /\ result = NoResult
    /\ queued0 = << >>
    /\ prevkind = "start"
    /\ panicked = FALSE
    /\ ncalls = 0
    /\ lastcall = NoCall


(***************************************************************************)
(* The table on its own: new(default) followed by assign calls.            *)
(***************************************************************************)
MapValues == {"z", "a", "b"}
MapDefault == "z"
MapPoints == IdxMin .. MapMax

InitMap ==
    /\ imap = new(MapMax, MapDefault)
    /\ recent = [p \in MapPoints |-> MapDefault]
    /\ nassign = 0
    /\ lastassign = [op |-> "new"]
    /\ InitTok
    /\ defined = NoDefine

\* map.assign(lo..hi, v) with lo < hi
MapAssign(lo, hi, v) ==
    /\ lo < hi
    /\ nassign < MaxAssigns
    /\ nassign' = nassign + 1
    /\ imap' = assign(imap, lo, hi, v)
    /\ recent' = [p \in MapPoints |-> IF lo <= p /\ p < hi THEN v ELSE recent[p]]
    /\ lastassign' = [op |-> "assign", lo |-> lo, hi |-> hi, v |-> v]
    /\ UNCHANGED <<tokvars, macvars>>

NextMap ==
    \E lo \in MapPoints, hi \in MapPoints, v \in MapValues : MapAssign(lo, hi, v)

SpecMap == InitMap /\ [][NextMap]_vars

\* C1 (as claimed): at every point of the domain, get returns the value of the
\* most recent assign whose range contains the point, or the default.
C1_GetIsMostRecent == \A p \in MapPoints : get(imap, p) = recent[p]

\* The same below the domain maximum (the one point no range lo..hi contains).
GetIsMostRecentBelowMax == \A p \in MapPoints \ {MapMax} : get(imap, p) = recent[p]

(***************************************************************************)
(* The table under every call: assign with lo < hi, assign with an empty   *)
(* range (lo = hi) and assign_single.                                      *)
(***************************************************************************)
\* map.assign(p..p, v): the empty range
MapAssignEmpty(p, v) ==
    /\ nassign < MaxAssigns
    /\ nassign' = nassign + 1
    /\ imap' = assign(imap, p, p, v)
    /\ recent' = recent
    /\ lastassign' = [op |-> "assign", lo |-> p, hi |-> p, v |-> v]
    /\ UNCHANGED <<tokvars, macvars>>

\* map.assign_single(p, v); p + 1 overflows the index type at its maximum
MapAssignSingle(p, v) ==
    /\ p < MapMax
    /\ nassign < MaxAssigns
    /\ nassign' = nassign + 1
    /\ imap' = assign_single(imap, p, v)
    /\ recent' = [q \in MapPoints |-> IF q = p THEN v ELSE recent[q]]
    /\ lastassign' = [op |-> "assign_single", lo |-> p, hi |-> p + 1, v |-> v]
    /\ UNCHANGED <<tokvars, macvars>>

NextMapAll ==
    \/ \E lo \in MapPoints, hi \in MapPoints, v \in MapValues : MapAssign(lo, hi, v)
    \/ \E p \in MapPoints, v \in MapValues : MapAssignEmpty(p, v)
    \/ \E p \in MapPoints, v \in MapValues : MapAssignSingle(p, v)

SpecMapAll == InitMap /\ [][NextMapAll]_vars

\* C12 (as claimed): the upper bounds of the interval list are strictly
\* increasing: no two entries share an upper bound and no entry describes an
\* empty interval.
C12_StrictlyIncreasing ==
    /\ imap[1][1] > IdxMin
    /\ \A i \in 1 .. Len(imap) - 1 : imap[i][1] < imap[i + 1][1]

\* The upper bounds never decrease.
UpperBoundsSorted == \A i \in 1 .. Len(imap) - 1 : imap[i][1] <= imap[i + 1][1]

\* C13: no two adjacent entries of the interval list carry the same value.
C13_NoEqualNeighbours == \A i \in 1 .. Len(imap) - 1 : imap[i][2] # imap[i + 1][2]

\* C13 happens: a second assign gave a range back the value of its
\* neighbours and the list is one entry again.
C13_Witness ==
    /\ nassign = 2
    /\ lastassign.op = "assign"
    /\ lastassign.lo < lastassign.hi
    /\ imap = new(MapMax, MapDefault)
    /\ \A p \in MapPoints : recent[p] = MapDefault

\* C14: the interval list is never empty and the upper bound of its last
\* entry is the domain maximum.
C14_EndsAtMax == Len(imap) > 0 /\ imap[Len(imap)][1] = MapMax

\* C14 happens: an assign whose range ends at the domain maximum was made on
\* a list of several entries.
C14_Witness ==
    /\ nassign >= 2
    /\ lastassign.op = "assign"
    /\ lastassign.lo < lastassign.hi
    /\ lastassign.hi = MapMax
    /\ Len(imap) >= 3
    /\ imap[Len(imap)][1] = MapMax

\* the last call left get as it was at the point q
Untouched(q) == get(imap', q) = get(imap, q)

\* C15 (as claimed): assign(lo..hi, v), also with lo = hi, and assign_single
\* change get at no point outside the range, the domain maximum included.
C15_Frame ==
    [][\A q \in MapPoints :
         (nassign' # nassign /\ (q < lastassign'.lo \/ q >= lastassign'.hi))
           => Untouched(q)]_vars

\* The same at the points below the domain maximum.
FrameBelowMax ==
    [][\A q \in MapPoints \ {MapMax} :
         (nassign' # nassign /\ (q < lastassign'.lo \/ q >= lastassign'.hi))
           => Untouched(q)]_vars

(***************************************************************************)
(* The tokenizer and its host: pulls, interleaved with catcode and         *)
(* set_endlinechar calls.                                                  *)
(***************************************************************************)
\* the (chr, category) pairs the host passes to catcode
CatcodeCalls == {<<32, Cat13>>, <<178, Cat7>>, <<178, Cat11>>}

\* the characters the host passes to set_endlinechar
EndlinecharCalls == {256, 97}

Init ==
    /\ imap = new(MapMax, MapDefault)
    /\ recent = [p \in MapPoints |-> MapDefault]
    /\ nassign = 0
    /\ lastassign = [op |-> "new"]
    /\ InitTok
    /\ defined = NoDefine

\* one call of Iterator::next
Pull ==
    /\ ~panicked
    /\ \E o \in next([Self EXCEPT !.pops = << >>, !.loads = << >>, !.steps = << >>,
                                     !.produced = << >>]) :
         /\ Becomes(o.t)
         /\ result' = IF o.kind = "some" THEN [kind |-> "some", token |-> o.token]
                      ELSE [kind |-> o.kind]
         /\ panicked' = (o.kind = "panic")
    /\ queued0' = Reverse(token_buffer)
    /\ prevkind' = result.kind
    /\ lastcall' = [op |-> "next"]
    /\ UNCHANGED <<ncalls, mapvars, macvars>>

\* TokenizerInteraction::catcode
Catcode(chr, category) ==
    /\ ~panicked
    /\ ncalls < MaxCalls
    /\ ncalls' = ncalls + 1
    /\ category_map' = assign_single(category_map, chr, category)
    /\ lastcall' = [op |-> "catcode", chr |-> chr, cat |-> category]
    /\ UNCHANGED <<state, line, line_count, pos, endlinechar, token_buffer, pops, loads,
                   steps, produced, after_word, loaded, lines, result, queued0, prevkind,
                   panicked, mapvars, macvars>>

\* a set_endlinechar that also re-terminates the buffered line
SetEndlinecharEager(chr, max) ==
    /\ ~panicked
    /\ ncalls < max
    /\ ncalls' = ncalls + 1
    /\ endlinechar' = chr
    /\ line' = IF line_count >= 1
                 THEN trim_end_spaces(loaded.raw) \o (IF chr <= 255 THEN <<chr>> ELSE << >>)
                 ELSE line
    /\ lastcall' = [op |-> "set_endlinechar", chr |-> chr]
    /\ UNCHANGED <<category_map, state, line_count, pos, token_buffer, pops, loads,
                   steps, produced, after_word, loaded, lines, result, queued0, prevkind,
                   panicked, mapvars, macvars>>

\* TokenizerInteraction::set_endlinechar, as one of at most max calls
SetEndlinecharWithin(chr, max) ==
    /\ ~panicked
    /\ ncalls < max
    /\ ncalls' = ncalls + 1
    /\ endlinechar' = chr
    /\ lastcall' = [op |-> "set_endlinechar", chr |-> chr]
    /\ UNCHANGED <<category_map, state, line, line_count, pos, token_buffer, pops, loads,
                   steps, produced, after_word, loaded, lines, result, queued0, prevkind,
                   panicked, mapvars, macvars>>

\* TokenizerInteraction::set_endlinechar
SetEndlinechar(chr) == SetEndlinecharWithin(chr, MaxCalls)

\* TokenizerInteraction::get_endlinechar
get_endlinechar(t) == t.endlinechar

Next ==
    \/ Pull
    \/ \E c \in CatcodeCalls : Catcode(c[1], c[2])
    \/ \E chr \in EndlinecharCalls : SetEndlinechar(chr)

Spec == Init /\ [][Next]_vars

(***************************************************************************)
(* Properties of the tokenizer.                                            *)
(***************************************************************************)
\* the last call on the tokenizer was a pull: the histories are its histories
AfterPull == lastcall.op = "next"

Steps == {steps[i] : i \in 1 .. Len(steps)}
Pops == {pops[i] : i \in 1 .. Len(pops)}
Loads == {loads[i] : i \in 1 .. Len(loads)}

IsSkipped(k) == k.type = "Other" /\ k.kind = "Skipped"
IsCharacter(k) == k.type = "Character"
IsControlSequence(k) == k.type = "ControlSequence"

\* the characters of the buffered line from the byte offset `from` on
InputAt(from) == str_from(line, from)

\* the next character at the byte offset `from`, superscript forms decoded
LookAheadAt(from) == look_ahead([Self EXCEPT !.pos = from])

\* the characters the scan step s took after the character it scanned
StepChars(s) ==
    LET taken == SelectSeq(pops, LAMBDA p : /\ p.kind = "some"
                                            /\ p.pos0 >= s.pos1
                                            /\ p.pos1 <= s.pos2)
    IN  [i \in 1 .. Len(taken) |-> taken[i].c]

\* the tokens the scan step s pushed, the Skipped diagnostic aside
Synthesized(s) == SelectSeq(s.pushed, LAMBDA k : ~IsSkipped(k))

\* what scanning an EndOfLine character pushes for the line end, by state
EndlineByState(s) ==
    /\ s.st0 = LineStart =>
         /\ Len(Synthesized(s)) = 1
         /\ IsControlSequence(Synthesized(s)[1])
         /\ Synthesized(s)[1].name = <<112, 97, 114>>
    /\ s.st0 = LineMiddle => Synthesized(s) = <<Character(32, get(category_map, 32))>>
    /\ s.st0 = SkippingBlanks => Synthesized(s) = << >>

\* C2 (as claimed): whenever an EndOfLine-category character is scanned, the
\* scan pushes ControlSequence("par") in LineStart, Character(' ', category
\* of ' ') in LineMiddle and no token for the line end in SkippingBlanks.
C2_EndlineByState ==
    AfterPull => \A s \in Steps : s.cat = Cat5 => s.kind = "ok" /\ EndlineByState(s)

\* C2, for the scans that return: the token pushed for the line end is the
\* one of the state in which the EndOfLine-category character was scanned.
C2_EndlineByStateWhenReturning ==
    AfterPull => \A s \in Steps : s.cat = Cat5 /\ s.kind = "ok" => EndlineByState(s)

\* what scanning a Space character does, by state
SpaceByState(s) ==
    IF s.st0 = LineMiddle
      THEN /\ s.pushed = <<Character(32, get(category_map, 32))>>
           /\ s.st1 = SkippingBlanks
      ELSE /\ Len(s.pushed) = 1
           /\ IsSkipped(s.pushed[1])
           /\ s.pushed[1].val = <<s.chr>> \o StepChars(s)
           /\ \A i \in 1 .. Len(s.pushed[1].val) :
                get(category_map, s.pushed[1].val[i]) = Cat10
           /\ LookAheadAt(s.pos2).kind # "panic"
           /\ LookAheadAt(s.pos2).kind = "some"
                => get(category_map, LookAheadAt(s.pos2).c) # Cat10
           /\ s.st1 = s.st0

\* C3 (as claimed): a Space-category character scanned in LineMiddle pushes
\* exactly one Character(' ', category of ' ') and the state becomes
\* SkippingBlanks; scanned in LineStart or SkippingBlanks, the maximal run of
\* Space-category characters becomes one Skipped token, no Character token is
\* pushed and the state stays.
C3_SpaceByState ==
    AfterPull => \A s \in Steps : s.cat = Cat10 => s.kind = "ok" /\ SpaceByState(s)

\* C3, for the scans that return.
C3_SpaceByStateWhenReturning ==
    AfterPull => \A s \in Steps : s.cat = Cat10 /\ s.kind = "ok" => SpaceByState(s)

\* the scan step s took an Escape-category character followed by a
\* Letter-category character
EscapeThenLetter(s) ==
    /\ s.cat = Cat0
    /\ LookAheadAt(s.pos1).kind = "some"
    /\ get(category_map, LookAheadAt(s.pos1).c) = Cat11

\* the control word such a step makes
ControlWord(s) ==
    /\ Len(s.pushed) = 1
    /\ IsControlSequence(s.pushed[1])
    /\ s.pushed[1].name = StepChars(s)
    /\ \A i \in 1 .. Len(s.pushed[1].name) :
         get(category_map, s.pushed[1].name[i]) = Cat11
    /\ LookAheadAt(s.pos2).kind # "panic"
    /\ LookAheadAt(s.pos2).kind = "some"
         => get(category_map, LookAheadAt(s.pos2).c) # Cat11
    /\ s.st1 = SkippingBlanks

\* no Character token comes from the spaces and the line end after a word
NoCharacterAfterWord(s) ==
    s.after_word /\ s.cat \in {Cat10, Cat5}
      => \A i \in 1 .. Len(s.pushed) : ~IsCharacter(s.pushed[i])

\* C4 (as claimed): an Escape-category character followed by a Letter-category
\* character makes a ControlSequence named by the maximal run of
\* Letter-category characters and the state becomes SkippingBlanks; the
\* Space-category characters and the line end directly after the control
\* word push no Character token.
C4_ControlWord ==
    AfterPull => \A s \in Steps :
      /\ EscapeThenLetter(s) => s.kind = "ok" /\ ControlWord(s)
      /\ NoCharacterAfterWord(s)

\* C4, for the scans that return.
C4_ControlWordWhenReturning ==
    AfterPull => \A s \in Steps :
      /\ EscapeThenLetter(s) /\ s.kind = "ok" => ControlWord(s)
      /\ NoCharacterAfterWord(s)

\* the characters the lines and the calls of this model are made of
Chars == Alphabet \cup {c[1] : c \in CatcodeCalls} \cup {77, 33, 170}

\* a catcode call changes the category of its character alone and leaves
\* the token returned last and the lookahead queue as they are
CatcodeStep ==
    /\ token_buffer' = token_buffer
    /\ result' = result
    /\ \A c \in Chars :
         get(category_map', c) = IF c = lastcall'.chr THEN lastcall'.cat
                                 ELSE get(category_map, c)

\* a pull scans every character with the category the table holds for it at
\* the time of the pull, and the Character tokens it makes carry it
PullStep ==
    /\ \A i \in 1 .. Len(steps') : steps'[i].cat = get(category_map, steps'[i].chr)
    /\ \A i \in 1 .. Len(produced') :
         IsCharacter(produced'[i])
           => produced'[i].cat = get(category_map, produced'[i].chr)

\* C5: a catcode call between two pulls changes the category used for every
\* character scanned after the call, those of the line already loaded
\* included, and changes no token already returned or waiting in the queue.
C5_CatcodeFromNextScan ==
    [][/\ (lastcall'.op = "catcode" /\ ncalls' # ncalls) => CatcodeStep
       /\ (lastcall'.op = "next" /\ ~UNCHANGED vars) => PullStep]_vars

\* C5 happens: after a pull loaded a line, catcode(' ', Cat13) was called and
\* the next pull made a space of that line an Active character.
C5_Witness ==
    /\ AfterPull
    /\ ncalls = 1
    /\ loads = << >>
    /\ pos > 0
    /\ get(category_map, 32) = Cat13
    /\ result = [kind |-> "some", token |-> Character(32, Cat13)]

\* C6: tokens leave in the order push produced them, none dropped, duplicated
\* or reordered (the queue before the pull, then the tokens the pull pushed, are
\* the token returned, then the queue after the pull), a pull with a
\* non-empty queue returns its head without scanning, and None is returned
\* only with an empty queue.
C6_Fifo ==
    AfterPull =>
      /\ queued0 \o produced
           = (IF result.kind = "some" THEN <<result.token>> ELSE << >>)
               \o Reverse(token_buffer)
      /\ queued0 # << >> => result.kind = "some" /\ produced = << >> /\ pops = << >>
      /\ result.kind = "none" => queued0 = << >> /\ token_buffer = << >>

\* C6 happens: one pull pushed two tokens, returned the first and kept the
\* second in the queue.
C6_Witness ==
    /\ AfterPull
    /\ Len(produced) = 2
    /\ produced[1] # produced[2]
    /\ result = [kind |-> "some", token |-> produced[1]]
    /\ token_buffer = <<produced[2]>>

\* C7 (as claimed): no pull panics: each returns a token or None.
C7_NeverPanics == ~panicked /\ result.kind \in {"start", "some", "none"}

\* 0-9 and a-f
IsHexDigit(c) == (48 <= c /\ c <= 57) \/ (97 <= c /\ c <= 102)

\* the input at the byte offset `from` starts with a doubled
\* Superscript-category character
DoubledSuperscriptAt(from) ==
    /\ InputAt(from).ok
    /\ Len(InputAt(from).chars) >= 2
    /\ get(category_map, InputAt(from).chars[1]) = Cat7
    /\ InputAt(from).chars[2] = InputAt(from).chars[1]

\* ... followed by two characters that are each 0-9 or a-f
HexFormAt(from) ==
    /\ DoubledSuperscriptAt(from)
    /\ Len(InputAt(from).chars) >= 4
    /\ IsHexDigit(InputAt(from).chars[3])
    /\ IsHexDigit(InputAt(from).chars[4])

\* C8 (as claimed): where the input is a doubled Superscript-category
\* character and two characters h1, h2 of 0-9a-f, pop_char yields the
\* character of code 16*h1 + h2 and advances the cursor by 4.
C8_HexForm ==
    AfterPull => \A p \in Pops :
      HexFormAt(p.pos0) =>
        /\ p.kind = "some"
        /\ p.c = 16 * hex_value(InputAt(p.pos0).chars[3])
                   + hex_value(InputAt(p.pos0).chars[4])
        /\ p.pos1 = p.pos0 + 4

\* C8, for a Superscript-category character of one byte.
C8_HexFormAscii ==
    AfterPull => \A p \in Pops :
      HexFormAt(p.pos0) /\ InputAt(p.pos0).chars[1] < 128 =>
        /\ p.kind = "some"
        /\ p.c = 16 * hex_value(InputAt(p.pos0).chars[3])
                   + hex_value(InputAt(p.pos0).chars[4])
        /\ p.pos1 = p.pos0 + 4

\* c XOR 64 for c < 128
Xor64(c) == IF c < 64 THEN c + 64 ELSE c - 64

\* C9 (as claimed): where the input is a doubled Superscript-category
\* character and a character c < 128, and the hex form does not apply,
\* pop_char yields the character of code c XOR 64, below 128, and advances
\* the cursor by 3.
C9_SingleForm ==
    AfterPull => \A p \in Pops :
      (/\ DoubledSuperscriptAt(p.pos0)
       /\ Len(InputAt(p.pos0).chars) >= 3
       /\ InputAt(p.pos0).chars[3] < 128
       /\ ~HexFormAt(p.pos0)) =>
        /\ p.kind = "some"
        /\ p.c = Xor64(InputAt(p.pos0).chars[3])
        /\ p.c < 128
        /\ p.pos1 = p.pos0 + 3

\* the line l without its trailing spaces
WithoutTrailingSpaces(l) ==
    SubSeq(l, 1, CHOOSE k \in 0 .. Len(l) :
                   /\ k > 0 => l[k] # 32
                   /\ \A j \in k + 1 .. Len(l) : l[j] = 32)

\* C10: every line loaded is the source's line without its trailing spaces,
\* then the end-of-line character configured at that time iff its code is at
\* most 255; the cursor is 0 and the state LineStart, whatever the state was.
C10_LoadedLine ==
    \A ld \in Loads :
      /\ ld.line = WithoutTrailingSpaces(ld.raw)
                     \o (IF ld.endlinechar <= 255 THEN <<ld.endlinechar>> ELSE << >>)
      /\ ld.pos = 0
      /\ ld.state = LineStart

\* C10 happens: a line with trailing spaces was loaded after a line that ended
\* in another state than LineStart.
C10_Witness ==
    \E ld \in Loads :
      /\ ld.before # LineStart
      /\ Len(ld.raw) > 0
      /\ ld.raw[Len(ld.raw)] = 32

\* C11: once a pull has returned None, a later pull in which the line source
\* yields no line returns None again: no token comes after end-of-stream.
C11_EndOfStreamStays ==
    AfterPull /\ prevkind = "none" /\ loads = << >> => result.kind = "none"

\* C11 happens: after a line was tokenized, two pulls in a row returned None.
C11_Witness ==
    /\ AfterPull
    /\ prevkind = "none"
    /\ loads = << >>
    /\ line_count > 0
    /\ Len(line) > 1
    /\ result.kind = "none"

(***************************************************************************)
(* The category table of a new tokenizer, looked up point by point.        *)
(***************************************************************************)
\* the code points looked up: the first ones, and two far ones
CodePoints == (0 .. MaxCodePoint) \cup {8364, 1114111}

\* Tokenizer::cat on the tokenizer Tokenizer::new returned
Lookup(c) ==
    /\ lastcall' = [op |-> "cat", chr |-> c, cat |-> cat(Self, c)]
    /\ UNCHANGED <<category_map, state, line, line_count, pos, endlinechar, token_buffer,
                   pops, loads, steps, produced, after_word, loaded, lines, result, queued0,
                   prevkind, panicked, ncalls, mapvars, macvars>>

NextCat == \E c \in CodePoints : Lookup(c)

SpecCat == Init /\ [][NextCat]_vars

\* the category the default assignments give the code point c
DefaultCategory(c) ==
    IF c = 92 THEN Cat0
    ELSE IF c = 123 THEN Cat1
    ELSE IF c = 125 THEN Cat2
    ELSE IF c = 36 THEN Cat3
    ELSE IF c = 38 THEN Cat4
    ELSE IF c \in {10, 13} THEN Cat5
    ELSE IF c = 35 THEN Cat6
    ELSE IF c = 94 THEN Cat7
    ELSE IF c = 95 THEN Cat8
    ELSE IF c = 0 THEN Cat9
    ELSE IF c \in {32, 9} THEN Cat10
    ELSE IF c \in (97 .. 122) \cup (65 .. 90) THEN Cat11
    ELSE IF c = 126 THEN Cat13
    ELSE IF c = 37 THEN Cat14
    ELSE IF c \in (1 .. 8) \cup {11, 12} \cup (14 .. 31) THEN Cat15
    ELSE Cat12

\* C16: in a new tokenizer every code point has its default category:
\* Escape for backslash, ..., Invalid for 1-8, 11, 12 and 14-31, Other for
\* every other code point.
C16_DefaultCategories ==
    lastcall.op = "cat" => lastcall.cat = DefaultCategory(lastcall.chr)

\* C16 happens: the last Invalid code point was looked up.
C16_Witness == lastcall = [op |-> "cat", chr |-> 31, cat |-> Cat15]

(***************************************************************************)
(* Macro definitions (macros.rs).                                          *)
(***************************************************************************)
\* macros::Span: start and end are (line, column) pairs
MacroSpan(start, end) == [start |-> start, end |-> end]

\* MacroParameter
Undelimited(number) == [type |-> "Undelimited", number |-> number]
Delimited(number, delimiter) ==
    [type |-> "Delimited", number |-> number, delimiter |-> delimiter]

\* struct Macro
Macro(control_sequence, parameters, replacement_text, location) ==
    [control_sequence |-> control_sequence, parameters |-> parameters,
     replacement_text |-> replacement_text, location |-> location]

\* ExpansionError
InvalidDefName == "InvalidDefName"
ExplicitBracesInParameterText == "ExplicitBracesInParameterText"
NonConsequitiveParameterNumber == "NonConsequitiveParameterNumber"
InvalidParameterNumber == "InvalidParameterNumber"

\* Result and Option
Ok(v) == [ok |-> TRUE, val |-> v]
Err(e) == [ok |-> FALSE, err |-> e]
None == [some |-> FALSE]
Some(v) == [some |-> TRUE, val |-> v]

\* char::is_ascii_digit
is_ascii_digit(c) == 48 <= c /\ c <= 57

is_category(token, category) == token.type = "Character" /\ token.cat = category

\* a digit 0-9 of category Other
is_parameter_digit_or_zero(token) ==
    token.type = "Character" /\ token.cat = Cat12 /\ is_ascii_digit(token.chr)

\* the pattern and guard of the arm that reads a parameter number
is_parameter_digit(token) ==
    token.type = "Character" /\ token.cat = Cat12 /\ is_ascii_digit(token.chr)
        /\ token.chr > 48

\* an opening brace only
is_group_open(token) == is_category(token, Cat1)

\* the two patterns of the arm that rejects braces
is_explicit_brace(token) == is_category(token, Cat1) \/ is_category(token, Cat2)

\* the closure finish_param: the parameter list with parameter `number`
\* pushed; the delimiter vector is empty afterwards in both branches
finish_param(params, number, delim_vec) ==
    IF delim_vec = << >> THEN Append(params, Undelimited(number))
    ELSE Append(params, Delimited(number, delim_vec))

\* the loop of parse_param_list from token i on, and what follows the loop
RECURSIVE parse_param_from(_, _, _, _, _, _)
parse_param_from(param_text, i, delimiter, param_number, arg_start, params) ==
    IF i > Len(param_text)
    THEN IF param_number.some
         THEN Ok(finish_param(params, param_number.val, delimiter))
         ELSE Ok(params)
    ELSE IF arg_start
    THEN IF ~param_number.some /\ is_parameter_digit(param_text[i])
         THEN parse_param_from(param_text, i + 1, delimiter,
                               Some(param_text[i].chr - 48), FALSE, params)
         ELSE Err(InvalidParameterNumber)
    ELSE IF is_category(param_text[i], Cat6)
    THEN IF ~param_number.some
         THEN parse_param_from(param_text, i + 1, delimiter, param_number, TRUE, params)
         ELSE parse_param_from(param_text, i + 1, << >>, None, TRUE,
                               finish_param(params, param_number.val, delimiter))
    ELSE IF is_explicit_brace(param_text[i])
    THEN Err(ExplicitBracesInParameterText)
    ELSE parse_param_from(param_text, i + 1, Append(delimiter, param_text[i]),
                          param_number, arg_start, params)

\* a scan that looks for braces in the whole text before anything else
parse_param_list_braces_first(param_text) ==
    IF \E j \in 1 .. Len(param_text) : is_explicit_brace(param_text[j])
    THEN Err(ExplicitBracesInParameterText)
    ELSE parse_param_from(param_text, 1, << >>, None, FALSE, << >>)

\* the scan, refusing parameter numbers that are not 1, 2, ... in this order
parse_param_list_consecutive(param_text) ==
    IF parse_param_from(param_text, 1, << >>, None, FALSE, << >>).ok
         /\ \E k \in 1 .. Len(parse_param_from(param_text, 1, << >>, None, FALSE, << >>).val) :
              parse_param_from(param_text, 1, << >>, None, FALSE, << >>).val[k].number # k
    THEN Err(NonConsequitiveParameterNumber)
    ELSE parse_param_from(param_text, 1, << >>, None, FALSE, << >>)

\* Macro::parse_param_list
parse_param_list(param_text) == parse_param_from(param_text, 1, << >>, None, FALSE, << >>)

\* the parameter text is scanned before the name is looked at
define_scan_first(control_sequence, parameter_text, replacement_text) ==
    IF ~parse_param_list(parameter_text).ok THEN parse_param_list(parameter_text)
    ELSE IF control_sequence.type # "ControlSequence" THEN Err(InvalidDefName)
    ELSE Ok(Macro(control_sequence.name, parse_param_list(parameter_text).val,
                  replacement_text,
                  MacroSpan(<<control_sequence.span.line, control_sequence.span.start>>,
                            <<0, 0>>)))

\* Macro::define
define(control_sequence, parameter_text, replacement_text) ==
    IF control_sequence.type # "ControlSequence" THEN Err(InvalidDefName)
    ELSE IF ~parse_param_list(parameter_text).ok THEN parse_param_list(parameter_text)
    ELSE Ok(Macro(control_sequence.name, parse_param_list(parameter_text).val,
                  replacement_text,
                  MacroSpan(<<control_sequence.span.line, control_sequence.span.start>>,
                            <<0, 0>>)))

(***************************************************************************)
(* define on its own: the arguments are drawn, then define is called.      *)
(***************************************************************************)
MaxParamPieces == 3

Hash == Character(35, Cat6)
DigitZero == Character(48, Cat12)
DigitOne == Character(49, Cat12)
DigitTwo == Character(50, Cat12)
LetterOne == Character(49, Cat11)
LetterA == Character(97, Cat11)
BraceOpen == Character(123, Cat1)
BraceClose == Character(125, Cat2)
CsToken == ControlSequence(<<120>>, Span(1, 4, 6))

\* A parameter text is a sequence of pieces: one token, or a parameter
\* marker with its number.
ParamPieces ==
    {<<tok>> : tok \in {Hash, DigitZero, DigitOne, DigitTwo, LetterOne, LetterA,
                        BraceOpen, BraceClose, CsToken}}
        \cup {<<Hash, DigitOne>>, <<Hash, DigitTwo>>}

ParamTexts ==
    UNION {{Flatten(ps, 1, k) : ps \in [1 .. k -> ParamPieces]} : k \in 0 .. MaxParamPieces}

\* what is passed as control_sequence: a control sequence, or a letter
NameTokens == {ControlSequence(<<116>>, Span(1, 0, 2)), LetterA}

ReplacementTexts == {<< >>, <<Hash, DigitZero>>}

InitDefine ==
    /\ imap = new(MapMax, MapDefault)
    /\ recent = [p \in MapPoints |-> MapDefault]
    /\ nassign = 0
    /\ lastassign = [op |-> "new"]
    /\ InitTok
    /\ defined \in {[op |-> "args", control_sequence |-> cs, parameter_text |-> pt,
                     replacement_text |-> rt] :
                       cs \in NameTokens, pt \in ParamTexts, rt \in ReplacementTexts}

\* Macro::define called on the arguments drawn
Define ==
    /\ defined.op = "args"
    /\ defined' = [op |-> "define", control_sequence |-> defined.control_sequence,
                   parameter_text |-> defined.parameter_text,
                   replacement_text |-> defined.replacement_text,
                   result |-> define(defined.control_sequence, defined.parameter_text,
                                     defined.replacement_text)]
    /\ UNCHANGED <<tokvars, mapvars>>

NextDefine == Define

SpecDefine == InitDefine /\ [][NextDefine]_vars

(***************************************************************************)
(* Claims about define.                                                    *)
(***************************************************************************)
AfterDefine == defined.op = "define"
NameIsControlSequence == defined.control_sequence.type = "ControlSequence"

IsParameterChar(tok) == tok.type = "Character" /\ tok.cat = Cat6
IsNumber(tok) == tok.type = "Character" /\ tok.cat = Cat12 /\ tok.chr \in 49 .. 57
IsBrace(tok) == tok.type = "Character" /\ tok.cat \in {Cat1, Cat2}

\* token i of the text is a parameter marker: a Parameter-category character
\* that is not itself the token read after a marker
RECURSIVE IsMarker(_, _)
IsMarker(text, i) ==
    /\ 1 <= i /\ i <= Len(text)
    /\ IsParameterChar(text[i])
    /\ ~IsMarker(text, i - 1)

\* token i is refused: it follows a marker and is no number, or it is a brace
\* that does not follow a marker
Refused(text, i) ==
    IF IsMarker(text, i - 1) THEN ~IsNumber(text[i]) ELSE IsBrace(text[i])

\* token i is the first token of the text that is refused
FirstRefused(text, i) ==
    /\ i \in 1 .. Len(text)
    /\ Refused(text, i)
    /\ \A j \in 1 .. (i - 1) : ~Refused(text, j)

\* the numbers that follow the markers of the text, in order
RECURSIVE MarkerNumbers(_, _)
MarkerNumbers(text, i) ==
    IF i >= Len(text) THEN << >>
    ELSE IF IsMarker(text, i) /\ IsNumber(text[i + 1])
    THEN <<text[i + 1].chr - 48>> \o MarkerNumbers(text, i + 1)
    ELSE MarkerNumbers(text, i + 1)

\* C17: in the parameter text, a marker followed by a digit 1-9 of category
\* Other denotes the parameter of that number: on success the parameters'
\* numbers are those digits, in order.  When the first refused token follows a
\* marker and is not itself a Parameter-category character (a digit 0, a
\* digit of another category, a letter, a brace, a control sequence), define
\* fails with InvalidParameterNumber.
C17_ParameterNumber ==
    (AfterDefine /\ NameIsControlSequence) =>
        /\ defined.result.ok =>
             [k \in 1 .. Len(defined.result.val.parameters) |->
                 defined.result.val.parameters[k].number]
               = MarkerNumbers(defined.parameter_text, 1)
        /\ \A i \in 1 .. Len(defined.parameter_text) :
             (/\ FirstRefused(defined.parameter_text, i)
              /\ IsMarker(defined.parameter_text, i - 1)
              /\ ~IsParameterChar(defined.parameter_text[i]))
               => defined.result = Err(InvalidParameterNumber)

\* C17 happens: `#1#{` was refused at the brace that follows the second marker.
C17_Witness ==
    /\ AfterDefine /\ NameIsControlSequence
    /\ defined.parameter_text = <<Hash, DigitOne, Hash, BraceOpen>>
    /\ defined.result = Err(InvalidParameterNumber)

\* C18: define fails with ExplicitBracesInParameterText when the first
\* refused token of the parameter text is a GroupOpen or GroupClose character
\* that does not directly follow a parameter marker.
C18_ExplicitBraces ==
    (AfterDefine /\ NameIsControlSequence) =>
        \A i \in 1 .. Len(defined.parameter_text) :
            (/\ FirstRefused(defined.parameter_text, i)
             /\ IsBrace(defined.parameter_text[i])
             /\ ~IsMarker(defined.parameter_text, i - 1))
              => defined.result = Err(ExplicitBracesInParameterText)

\* C18 happens: `#1}` was refused at the closing brace.
C18_Witness ==
    /\ AfterDefine /\ NameIsControlSequence
    /\ defined.parameter_text = <<Hash, DigitOne, BraceClose>>
    /\ defined.result = Err(ExplicitBracesInParameterText)

\* the position of the first marker of the text at or after token j, or
\* Len(text) + 1 when there is none
RECURSIVE NextMarker(_, _)
NextMarker(text, j) ==
    IF j > Len(text) \/ IsMarker(text, j) THEN j ELSE NextMarker(text, j + 1)

\* the parameter the marker at token i and its number stand for: its
\* delimiter is what follows the number, up to the next marker or the end
ParameterAt(text, i) ==
    IF NextMarker(text, i + 2) = i + 2 THEN Undelimited(text[i + 1].chr - 48)
    ELSE Delimited(text[i + 1].chr - 48, SubSeq(text, i + 2, NextMarker(text, i + 2) - 1))

\* the parameters of the markers at or after token i, in order
RECURSIVE ParametersFrom(_, _)
ParametersFrom(text, i) ==
    IF i >= Len(text) THEN << >>
    ELSE IF IsMarker(text, i) /\ IsNumber(text[i + 1])
    THEN <<ParameterAt(text, i)>> \o ParametersFrom(text, i + 1)
    ELSE ParametersFrom(text, i + 1)

\* C19: on success define records the parameters in the order of their
\* markers, and the delimiter of parameter #n is exactly the non-marker tokens
\* that follow `#n` up to the next marker or the end of the text; the
\* parameter is undelimited when there are none.
C19_Delimiters ==
    (AfterDefine /\ defined.result.ok) =>
        defined.result.val.parameters = ParametersFrom(defined.parameter_text, 1)

\* The same, for the parameter texts that do not begin with tokens standing
\* before the first marker.
C19_DelimitersMarkerFirst ==
    (AfterDefine /\ defined.result.ok
       /\ NextMarker(defined.parameter_text, 1) \in {1, Len(defined.parameter_text) + 1})
      => defined.result.val.parameters = ParametersFrom(defined.parameter_text, 1)

\* `#1a#2` gave parameter 1 delimited by a, then the undelimited parameter 2.
C19_Witness ==
    /\ AfterDefine
    /\ defined.parameter_text = <<Hash, DigitOne, LetterA, Hash, DigitTwo>>
    /\ defined.result.ok
    /\ defined.result.val.parameters = <<Delimited(1, <<LetterA>>), Undelimited(2)>>

\* no token of the text is refused, and the text does not end with a marker
ScanSucceeds(text) ==
    /\ \A i \in 1 .. Len(text) : ~Refused(text, i)
    /\ ~IsMarker(text, Len(text))

\* C20: define fails with InvalidDefName whenever control_sequence is not a
\* ControlSequence token, whatever the two token lists contain; when it is
\* one and the scan of the parameter text succeeds, define returns a Macro,
\* and every Macro returned carries the name of that control sequence.
C20_InvalidDefName ==
    AfterDefine =>
        /\ ~NameIsControlSequence => defined.result = Err(InvalidDefName)
        /\ (NameIsControlSequence /\ ScanSucceeds(defined.parameter_text))
             => defined.result.ok
        /\ defined.result.ok
             => /\ NameIsControlSequence
                /\ defined.result.val.control_sequence = defined.control_sequence.name

\* C20 happens: a letter given as the name was refused although the parameter
\* text `#0` is invalid too.
C20_Witness ==
    /\ AfterDefine
    /\ defined.control_sequence = LetterA
    /\ defined.parameter_text = <<Hash, DigitZero>>
    /\ defined.result = Err(InvalidDefName)

\* C21: define fails with InvalidParameterNumber when the parameter text ends
\* with a parameter marker that no token follows (no earlier token being
\* refused).
C21_TrailingMarker ==
    (/\ AfterDefine /\ NameIsControlSequence
     /\ IsMarker(defined.parameter_text, Len(defined.parameter_text))
     /\ \A i \in 1 .. Len(defined.parameter_text) : ~Refused(defined.parameter_text, i))
      => defined.result = Err(InvalidParameterNumber)

\* What define does instead: such a parameter text is accepted, the trailing
\* marker standing for no parameter.
C21_TrailingMarkerAccepted ==
    (/\ AfterDefine /\ NameIsControlSequence
     /\ IsMarker(defined.parameter_text, Len(defined.parameter_text))
     /\ \A i \in 1 .. Len(defined.parameter_text) : ~Refused(defined.parameter_text, i))
      => /\ defined.result.ok
         /\ Len(defined.result.val.parameters)
              = Len(MarkerNumbers(defined.parameter_text, 1))

\* C22: a Parameter-category character directly followed by another one is
\* accepted: a parameter text whose only tokens that are no number after a
\* marker are such characters, and which does not end with a marker, does not
\* make define fail.
C22_SelfEscape ==
    (/\ AfterDefine /\ NameIsControlSequence
     /\ \A i \in 1 .. Len(defined.parameter_text) :
          Refused(defined.parameter_text, i)
            => (IsMarker(defined.parameter_text, i - 1)
                  /\ IsParameterChar(defined.parameter_text[i]))
     /\ ~IsMarker(defined.parameter_text, Len(defined.parameter_text)))
      => defined.result.ok

\* What define does instead: a Parameter-category character after a marker is
\* refused like any other token that is no number.
C22_SelfEscapeRefused ==
    (/\ AfterDefine /\ NameIsControlSequence
     /\ \E i \in 1 .. Len(defined.parameter_text) :
          /\ FirstRefused(defined.parameter_text, i)
          /\ IsMarker(defined.parameter_text, i - 1)
          /\ IsParameterChar(defined.parameter_text[i]))
      => defined.result = Err(InvalidParameterNumber)

\* C23: the replacement text is scanned like the parameter text: when the
\* parameter text is accepted and in the replacement text the first refused
\* token follows a marker and is no Parameter-category character (`#0`),
\* define fails with InvalidParameterNumber.
C23_ReplacementScanned ==
    (/\ AfterDefine /\ NameIsControlSequence
     /\ ScanSucceeds(defined.parameter_text)
     /\ \E i \in 1 .. Len(defined.replacement_text) :
          /\ FirstRefused(defined.replacement_text, i)
          /\ IsMarker(defined.replacement_text, i - 1)
          /\ ~IsParameterChar(defined.replacement_text[i]))
      => defined.result = Err(InvalidParameterNumber)

\* What define does instead: the replacement text is stored as it was given
\* and has no influence on success.
C23_ReplacementStored ==
    AfterDefine =>
        /\ defined.result.ok
             => defined.result.val.replacement_text = defined.replacement_text
        /\ defined.result.ok
             = (NameIsControlSequence /\ parse_param_list(defined.parameter_text).ok)

\* C24: define never returns NonConsequitiveParameterNumber: a parameter text
\* without a refused token and without a trailing marker is accepted whatever
\* the order of its numbers, and its parameters carry those numbers.
C24_NeverNonConsecutive ==
    AfterDefine =>
        /\ defined.result # Err(NonConsequitiveParameterNumber)
        /\ (NameIsControlSequence /\ ScanSucceeds(defined.parameter_text))
             => /\ defined.result.ok
                /\ [k \in 1 .. Len(defined.result.val.parameters) |->
                       defined.result.val.parameters[k].number]
                     = MarkerNumbers(defined.parameter_text, 1)

\* C24 happens: `#2#1` was accepted.
C24_Witness ==
    /\ AfterDefine
    /\ defined.parameter_text = <<Hash, DigitTwo, Hash, DigitOne>>
    /\ defined.result.ok
    /\ defined.result.val.parameters = <<Undelimited(2), Undelimited(1)>>

(***************************************************************************)
(* The tokenizer with a letter made a comment, ignored or invalid          *)
(* character, or a two-byte character made an ignored or invalid one.      *)
(***************************************************************************)
HiddenCalls == {<<97, Cat14>>, <<97, Cat9>>, <<97, Cat15>>, <<178, Cat9>>, <<178, Cat15>>}

NextHidden ==
    \/ Pull
    \/ \E c \in HiddenCalls : Catcode(c[1], c[2])

SpecHidden == Init /\ [][NextHidden]_vars

IsComment(k) == k.type = "Other" /\ k.kind = "Comment"

\* the step pushed one Comment token and left the state as it was
OneComment(s) ==
    /\ s.kind = "ok"
    /\ Len(s.pushed) = 1
    /\ IsComment(s.pushed[1])
    /\ s.st1 = s.st0

\* C25: when a Comment-category character is scanned, the Comment token's
\* text is the rest of the line buffer as it stands, superscript forms not
\* decoded, and the state after the step is the state before it.
C25_CommentVerbatim ==
    AfterPull =>
      \A s \in Steps : s.cat = Cat14 =>
        /\ OneComment(s)
        /\ InputAt(s.pos1).ok
        /\ s.pushed[1].val = InputAt(s.pos1).chars

\* What the scan does instead, when it returns: the text is what pop_char
\* yields up to the end of the line buffer, superscript forms decoded.
C25_CommentDecoded ==
    AfterPull =>
      \A s \in Steps : s.cat = Cat14 /\ s.kind = "ok" =>
        /\ OneComment(s)
        /\ s.pushed[1].val = StepChars(s)
        /\ LookAheadAt(s.pos2).kind = "none"

(***************************************************************************)
(* More properties of the tokenizer's scan steps.                          *)
(***************************************************************************)
\* the Skipped tokens the scan step s pushed
SkippedOf(s) == SelectSeq(s.pushed, IsSkipped)

\* what scanning an EndOfLine character does with the rest of the line
EndlineSkips(s) ==
    /\ LookAheadAt(s.pos2).kind = "none"
    /\ InputAt(s.pos1).ok
    /\ IF InputAt(s.pos1).chars # << >>
         THEN /\ Len(SkippedOf(s)) = 1
              /\ IsSkipped(s.pushed[1])
              /\ s.pushed[1].val = StepChars(s)
              /\ s.pushed[1].val # << >>
              /\ Len(s.pushed) <= 2
         ELSE /\ SkippedOf(s) = << >>
              /\ StepChars(s) = << >>

\* C26 (as claimed): when an EndOfLine-category character is scanned, the
\* rest of the buffered line is consumed; when it is not empty exactly one
\* Skipped token holding it is pushed, ahead of the par or space token of the
\* step, and when it is empty no Skipped token is pushed.
C26_EndlineSkips ==
    AfterPull => \A s \in Steps : s.cat = Cat5 => s.kind = "ok" /\ EndlineSkips(s)

\* C26, for the scans that return.
C26_EndlineSkipsWhenReturning ==
    AfterPull => \A s \in Steps : s.cat = Cat5 /\ s.kind = "ok" => EndlineSkips(s)

\* the scan step s took an Escape-category character followed by a character
\* that is not of category Letter
EscapeThenOther(s) ==
    /\ s.cat = Cat0
    /\ LookAheadAt(s.pos1).kind = "some"
    /\ get(category_map, LookAheadAt(s.pos1).c) # Cat11

\* the control symbol such a step makes, and the state it leaves
ControlSymbol(s) ==
    /\ s.kind = "ok"
    /\ Len(s.pushed) = 1
    /\ IsControlSequence(s.pushed[1])
    /\ s.pushed[1].name = <<LookAheadAt(s.pos1).c>>
    /\ s.st1 = IF get(category_map, LookAheadAt(s.pos1).c) = Cat10 THEN SkippingBlanks
               ELSE LineMiddle

ControlSymbols == \A s \in Steps : EscapeThenOther(s) => ControlSymbol(s)

\* the index in the line buffer of the character behind those the scan step
\* s consumed (the cursor advances by one for a character and by the number
\* of its characters for a superscript form)
IndexBehind(s) ==
    (CHOOSE k \in 1 .. Len(line) + 1 : byte_offset(line, k) = s.pos0) + (s.pos2 - s.pos0)

\* the pull just made returned a control symbol of a character that is no
\* space, and a Space-category character stands right behind it in the line
SpaceBehindSymbol ==
    /\ AfterPull
    /\ token_buffer = << >>
    /\ steps # << >>
    /\ steps[Len(steps)].cat = Cat0
    /\ steps[Len(steps)].kind = "ok"
    /\ result = [kind |-> "some", token |-> steps[Len(steps)].pushed[1]]
    /\ Len(result.token.name) = 1
    /\ get(category_map, result.token.name[1]) \notin {Cat10, Cat11}
    /\ IndexBehind(steps[Len(steps)]) <= Len(line)
    /\ get(category_map, line[IndexBehind(steps[Len(steps)])]) = Cat10

ReturnsSpace == result = [kind |-> "some", token |-> Character(32, get(category_map, 32))]

\* C27 (as claimed): an Escape-category character followed by a character
\* that is not of category Letter makes a ControlSequence named by exactly
\* that character, decoded; the state becomes SkippingBlanks when the
\* character has category Space and LineMiddle otherwise; and the pull after
\* one that returned a control symbol of a non-space character with a
\* Space-category character right behind it returns Character(' ').
C27_ControlSymbol ==
    /\ [](AfterPull => ControlSymbols)
    /\ [][(SpaceBehindSymbol /\ lastcall'.op = "next")
            => result' = [kind |-> "some", token |-> Character(32, get(category_map, 32))]]_vars

\* C27, for the pulls that return.
C27_ControlSymbolWhenReturning ==
    /\ [](AfterPull => ControlSymbols)
    /\ [][(SpaceBehindSymbol /\ lastcall'.op = "next" /\ ~panicked')
            => result' = [kind |-> "some", token |-> Character(32, get(category_map, 32))]]_vars

\* `\^ a`: the control symbol ^ was returned, then the space behind it came
\* as Character(' ').
C27_Witness ==
    /\ AfterPull
    /\ line = <<92, 94, 32, 97, 13>>
    /\ pos = 3
    /\ steps # << >>
    /\ steps[Len(steps)].st0 = LineMiddle
    /\ ReturnsSpace

\* the tokens that carry a span
HasSpan(k) == k.type \in {"ControlSequence", "Other"}

\* the tokens the tokenizer has emitted and not yet replaced: the one the last
\* pull returned, those it pushed, and those waiting in the queue
Emitted ==
    (IF result.kind = "some" THEN {result.token} ELSE {})
        \cup {produced[i] : i \in 1 .. Len(produced)}
        \cup {token_buffer[i] : i \in 1 .. Len(token_buffer)}

\* C28: every span carried by an emitted token has the 1-based number of the
\* line the token was scanned from, which is at least 1: no emitted token
\* carries the wildcard span (line 0, start 0, end 0).
C28_SpanLine ==
    \A k \in Emitted :
      HasSpan(k) => /\ k.span.line >= 1
                    /\ k.span.line = line_count
                    /\ k.span # Span(0, 0, 0)

\* C28 happens: a token scanned at the start of the second line was returned.
C28_Witness ==
    /\ AfterPull
    /\ result.kind = "some"
    /\ HasSpan(result.token)
    /\ result.token.span.line = 2
    /\ result.token.span.start = 0

\* the line the source gave holds an EndOfLine-category character
HoldsEndOfLine(raw) == \E i \in 1 .. Len(raw) : get(category_map, raw[i]) = Cat5

HiddenKind(category) == IF category = Cat9 THEN "IgnoredCharacter" ELSE "InvalidCharacter"

\* the step pushed exactly the diagnostic token of its character, consumed
\* nothing else and left the state as it was
HiddenStep(s) ==
    /\ s.kind = "ok"
    /\ Len(s.pushed) = 1
    /\ s.pushed[1].type = "Other"
    /\ s.pushed[1].kind = HiddenKind(s.cat)
    /\ s.pushed[1].val = s.chr
    /\ s.st1 = s.st0
    /\ s.pos2 = s.pos1

\* C30 (as claimed): a scanned character of category Ignored produces exactly
\* one IgnoredCharacter token and one of category Invalid exactly one
\* InvalidCharacter token, carrying that character; the state is unchanged and
\* scanning continues with the next character of the line: the cursor stands
\* at the start of the character behind, or at the end of the line.
C30_HiddenCharacters ==
    AfterPull =>
      \A s \in Steps : s.cat \in {Cat9, Cat15} => HiddenStep(s) /\ InputAt(s.pos2).ok

\* C30 without where scanning continues: the token and the state.
C30_HiddenTokens ==
    AfterPull =>
      \A s \in Steps : s.cat \in {Cat9, Cat15} =>
        /\ HiddenStep(s)
        /\ len_utf8(s.chr) = 1 => InputAt(s.pos2).ok

\* C30 happens: with the letter a made an Ignored character, an a scanned
\* in LineMiddle came as IgnoredCharacter and the state stayed LineMiddle.
C30_Witness ==
    /\ AfterPull
    /\ \E s \in Steps :
         /\ s.cat = Cat9
         /\ s.chr = 97
         /\ s.st0 = LineMiddle
         /\ HiddenStep(s)
         /\ result = [kind |-> "some", token |-> s.pushed[1]]
    /\ state = LineMiddle

(***************************************************************************)
(* More properties of define.                                              *)
(***************************************************************************)
\* C36: when the parameter text holds violations, define returns the error
\* of the leftmost offending token and no Macro: InvalidParameterNumber when
\* that token follows a marker without being a number (and is no
\* Parameter-category character), ExplicitBracesInParameterText when it is a
\* brace that does not follow a marker, whatever comes behind it.
C36_LeftmostError ==
    (AfterDefine /\ NameIsControlSequence) =>
        \A i \in 1 .. Len(defined.parameter_text) :
            (/\ FirstRefused(defined.parameter_text, i)
             /\ ~(IsMarker(defined.parameter_text, i - 1)
                    /\ IsParameterChar(defined.parameter_text[i])))
              => /\ ~defined.result.ok
                 /\ defined.result.err
                      = IF IsMarker(defined.parameter_text, i - 1)
                          THEN InvalidParameterNumber
                          ELSE ExplicitBracesInParameterText

\* C36 happens: `#0{` holds two violations and failed with the error of the
\* first one.
C36_Witness ==
    /\ AfterDefine /\ NameIsControlSequence
    /\ defined.parameter_text = <<Hash, DigitZero, BraceOpen>>
    /\ Refused(defined.parameter_text, 2)
    /\ Refused(defined.parameter_text, 3)
    /\ defined.result = Err(InvalidParameterNumber)

(***************************************************************************)
(* More properties of the tokenizer.                                       *)
(***************************************************************************)
\* the scan step s took an Escape-category character behind which the line
\* buffer ends
EscapeAtEnd(s) ==
    /\ s.cat = Cat0
    /\ InputAt(s.pos1).ok
    /\ InputAt(s.pos1).chars = << >>

\* C31: when an Escape-category character is the last character of the
\* buffered line, exactly one ControlSequence with the empty name is pushed
\* and the cursor stays at the end of the line, so that the next character
\* comes from the next line; and this occurs only when the line got no
\* terminator, or the escape came from the terminator itself (it is the
\* terminator, or a superscript form that takes the terminator in).
C31_EscapeAtEnd ==
    AfterPull =>
      \A s \in Steps : EscapeAtEnd(s) =>
        /\ s.kind = "ok"
        /\ Len(s.pushed) = 1
        /\ IsControlSequence(s.pushed[1])
        /\ s.pushed[1].name = << >>
        /\ s.pushed[1].span = Span(line_count, s.pos0, s.pos1 - 1)
        /\ s.pos2 = s.pos1
        /\ LookAheadAt(s.pos2).kind = "none"
        /\ \/ loaded.endlinechar > 255
           \/ s.chr = loaded.endlinechar
           \/ s.pos1 - s.pos0 > 1

\* C31 happens: with the terminator disabled the line `\` gave the control
\* sequence with the empty name.
C31_Witness ==
    /\ AfterPull
    /\ line = <<92>>
    /\ loaded.endlinechar = 256
    /\ result = [kind |-> "some", token |-> ControlSequence(<< >>, Span(1, 0, 0))]
    /\ pos = 1

\* the input at the byte offset `from` starts with no complete superscript
\* escape: the first character is not of category Superscript, or the same
\* character does not follow it, or nothing follows the pair, or the
\* character after the pair has code 128 or above
NoEscapeAt(from) ==
    /\ InputAt(from).ok
    /\ Len(InputAt(from).chars) >= 1
    /\ \/ ~DoubledSuperscriptAt(from)
       \/ Len(InputAt(from).chars) = 2
       \/ InputAt(from).chars[3] >= 128

\* a doubled Superscript-category character, a character below 128 and no
\* two characters of 0-9a-f: the single-character form
SingleFormAt(from) ==
    /\ DoubledSuperscriptAt(from)
    /\ Len(InputAt(from).chars) >= 3
    /\ InputAt(from).chars[3] < 128
    /\ ~HexFormAt(from)

\* the two characters after the pair pass the hex-digit test of
\* parse_superscript_char without both being of 0-9a-f
MisreadAsHexAt(from) ==
    /\ DoubledSuperscriptAt(from)
    /\ Len(InputAt(from).chars) >= 4
    /\ \A k \in {3, 4} : \/ is_lower_hexdigit(InputAt(from).chars[k])
                         \/ is_numeric(InputAt(from).chars[k])
    /\ ~HexFormAt(from)

\* C32 (as claimed): where no complete superscript escape is at the cursor,
\* pop_char returns the raw next character and advances the cursor by exactly
\* 1; where a doubled Superscript-category character is followed by a
\* character below 128 but not by two hex digits, pop_char returns the
\* single-character form and does not fail.
C32_Fallback ==
    AfterPull => \A p \in Pops :
      /\ NoEscapeAt(p.pos0) =>
           /\ p.kind = "some"
           /\ p.c = InputAt(p.pos0).chars[1]
           /\ p.pos1 = p.pos0 + 1
      /\ SingleFormAt(p.pos0) =>
           /\ p.kind = "some"
           /\ p.c = Xor64(InputAt(p.pos0).chars[3])
           /\ p.pos1 = p.pos0 + 3

\* C32, where the hex-digit test does not take a numeric character that is
\* no hex digit for one.
C32_FallbackUnlessMisread ==
    AfterPull => \A p \in Pops :
      ~MisreadAsHexAt(p.pos0) =>
        /\ NoEscapeAt(p.pos0) =>
             /\ p.kind = "some"
             /\ p.c = InputAt(p.pos0).chars[1]
             /\ p.pos1 = p.pos0 + 1
        /\ SingleFormAt(p.pos0) =>
             /\ p.kind = "some"
             /\ p.c = Xor64(InputAt(p.pos0).chars[3])
             /\ p.pos1 = p.pos0 + 3

\* C32 happens: a doubled Superscript-category character with nothing behind
\* it was read as one raw character.
C32_Witness ==
    /\ AfterPull
    /\ \E p \in Pops :
         /\ DoubledSuperscriptAt(p.pos0)
         /\ Len(InputAt(p.pos0).chars) = 2
         /\ p.kind = "some"
         /\ p.c = InputAt(p.pos0).chars[1]
         /\ p.pos1 = p.pos0 + 1

\* the scan steps made on the buffered line so far, over all pulls
Scanned == loaded.scanned

\* only characters of category Space, Ignored or Invalid were scanned on the
\* buffered line before its i-th scan step
OnlyBlanksBefore(i) ==
    \A j \in 1 .. i - 1 : Scanned[j].cat \in {Cat10, Cat9, Cat15}

\* the scan step s queued ControlSequence("par")
SynthesizesPar(s) ==
    \E k \in 1 .. Len(s.pushed) :
      /\ IsControlSequence(s.pushed[k])
      /\ s.pushed[k].name = <<112, 97, 114>>

\* C33 (as claimed): each character is scanned in state LineStart iff every
\* character scanned before it on the line had category Space, Ignored or
\* Invalid, and ControlSequence("par") is queued by exactly the scan steps of
\* an EndOfLine-category character before which only such characters were
\* scanned on the line.
C33_LineStart ==
    \A i \in 1 .. Len(Scanned) :
      /\ Scanned[i].st0 = LineStart <=> OnlyBlanksBefore(i)
      /\ SynthesizesPar(Scanned[i]) <=> (Scanned[i].cat = Cat5 /\ OnlyBlanksBefore(i))

\* C33, for the scan steps that did not panic.
C33_LineStartWhenReturning ==
    \A i \in 1 .. Len(Scanned) :
      /\ Scanned[i].st0 = LineStart <=> OnlyBlanksBefore(i)
      /\ Scanned[i].kind = "ok" =>
           (SynthesizesPar(Scanned[i]) <=> (Scanned[i].cat = Cat5 /\ OnlyBlanksBefore(i)))

\* C33 happens: an Ignored-category character and then the end-of-line
\* character were scanned in state LineStart, in two pulls, and "par" was
\* queued.
C33_Witness ==
    /\ AfterPull
    /\ Len(Scanned) = 2
    /\ Len(steps) = 1
    /\ Scanned[1].cat = Cat9
    /\ Scanned[2].cat = Cat5
    /\ Scanned[2].st0 = LineStart
    /\ SynthesizesPar(Scanned[2])

(***************************************************************************)
(* The tokenizer with pulls and up to MaxEndlineCalls calls of             *)
(* set_endlinechar.                                                        *)
(***************************************************************************)
NextEndline ==
    \/ Pull
    \/ \E chr \in EndlinecharCalls : SetEndlinecharWithin(chr, MaxEndlineCalls)

SpecEndline == Init /\ [][NextEndline]_vars

\* the terminator next_line appends under the end-of-line character chr
Terminator(chr) == IF chr <= 255 THEN <<chr>> ELSE << >>

\* this step is a call of set_endlinechar
SetEndlinecharCalled == ncalls' # ncalls /\ lastcall'.op = "set_endlinechar"

\* C34: the buffered line always ends as the end-of-line character of the
\* time of its load says, whatever set_endlinechar calls came since, and a
\* call leaves the buffered line alone; each line a pull loads is terminated
\* by the value set last; get_endlinechar returns CR before any call, the
\* value given after a call of set_endlinechar, and is changed by nothing
\* else.
C34_Endlinechar ==
    /\ [](line_count >= 1 =>
            line = WithoutTrailingSpaces(loaded.raw) \o Terminator(loaded.endlinechar))
    /\ [](AfterPull =>
            \A ld \in Loads :
              /\ ld.endlinechar = get_endlinechar(Self)
              /\ ld.line = WithoutTrailingSpaces(ld.raw) \o Terminator(get_endlinechar(Self)))
    /\ [](lastcall.op = "none" => get_endlinechar(Self) = 13)
    /\ [][IF SetEndlinecharCalled
            THEN /\ endlinechar' = lastcall'.chr
                 /\ line' = line
                 /\ loaded' = loaded
            ELSE endlinechar' = endlinechar]_vars

\* C34 happens: a line was loaded without terminator after
\* set_endlinechar(256), then set_endlinechar('a') was called: the line is
\* as it was and get_endlinechar returns 'a'.
C34_Witness ==
    /\ lastcall = [op |-> "set_endlinechar", chr |-> 97]
    /\ ncalls = 2
    /\ loaded.endlinechar = 256
    /\ get_endlinechar(Self) = 97
    /\ line = <<92>>
    /\ loaded.raw = <<92>>

(***************************************************************************)
(* The tokenizer whose consumer keeps pulling: a `for token in tokenizer`  *)
(* loop calls next() again as long as the thread runs, so a pull that can  *)
(* be made is made.  Nothing obliges the caller to change categories or    *)
(* the end-of-line character.  The line source yields lines of at most     *)
(* MaxLivePieces pieces.                                                   *)
(***************************************************************************)
InitLive ==
    /\ imap = new(MapMax, MapDefault)
    /\ recent = [p \in MapPoints |-> MapDefault]
    /\ nassign = 0
    /\ lastassign = [op |-> "new"]
    /\ IsSelf([Tokenizer_new EXCEPT !.lines = "short"])
    /\ result = NoResult
    /\ queued0 = << >>
    /\ prevkind = "start"
    /\ panicked = FALSE
    /\ ncalls = 0
    /\ lastcall = NoCall
    /\ defined = NoDefine

SpecLive == InitLive /\ [][Next]_vars /\ WF_vars(Pull)

\* the last pull took something: a queued token, a character or a line
Progressed ==
    \/ queued0 # << >>
    \/ \E p \in Pops : p.kind = "some" /\ p.pos1 > p.pos0
    \/ Loads # {}

\* every character taken moves the cursor forward; a pull that returns a
\* token has taken something
StepsAdvance ==
    AfterPull =>
      /\ \A p \in Pops : p.kind = "some" => p.pos1 > p.pos0
      /\ \A s \in Steps : s.pos0 < s.pos1 /\ (s.kind = "ok" => s.pos1 <= s.pos2)
      /\ result.kind = "some" => Progressed

\* C35 (as claimed): every scan step advances the cursor, loads a line or
\* ends the stream, and the tokenizer eventually returns end-of-stream.
C35_EndOfStream == [](StepsAdvance) /\ <>(result.kind = "none")

\* C35, with the panic as a way for the pulls to end.
C35_EndOfStreamOrPanic == [](StepsAdvance) /\ <>(result.kind \in {"none", "panic"})

\* C35 happens: end-of-stream was returned after all MaxLines lines were
\* loaded and a category was changed between two pulls.
C35_Witness ==
    /\ AfterPull
    /\ result.kind = "none"
    /\ line_count = MaxLines
    /\ ncalls = 1
    /\ prevkind = "some"

\* C37: the queue holds at most two tokens after any scan step and at most
\* one between pulls, and a pull that finds a token queued takes no
\* character and loads no line: the cursor and the line stay as they were.
C37_Queue ==
    /\ [](Len(token_buffer) <= 1)
    /\ [](AfterPull =>
            /\ \A s \in Steps : Len(s.pushed) <= 2
            /\ queued0 # << >> => (pops = << >> /\ loads = << >> /\ steps = << >>))
    /\ [][(token_buffer # << >> /\ lastcall'.op = "next" /\ ncalls' = ncalls)
            => (pos' = pos /\ line' = line /\ line_count' = line_count)]_vars

\* C37 happens: a scan step queued two tokens, the pull returned the first,
\* and the next pull returned the second from the queue.
C37_Witness ==
    /\ AfterPull
    /\ Len(queued0) = 1
    /\ result = [kind |-> "some", token |-> queued0[1]]
    /\ token_buffer = << >>
    /\ IsControlSequence(queued0[1])
    /\ queued0[1].name = <<112, 97, 114>>
    /\ pos = Len(line)
    /\ pos > 1

==============================================================================
